---- MODULE Spec2Model ----
(***************************************************************************)
(* The reconciliation core of the cluster version operator                 *)
(* (pkg/cvo/cvo.go): the Event Bridge, the rate limited work queue, the    *)
(* worker loop with its retry policy, and the six stage sync pipeline.     *)
(*                                                                         *)
(* Time is counted in milliseconds.  The work queue, the delaying queue    *)
(* and the rate limiter are client-go's (k8s.io/client-go/util/workqueue); *)
(* cvo.go only calls them, so they are modelled from section 4.1 of the    *)
(* specification and from the calls cvo.go makes.                          *)
(***************************************************************************)
EXTENDS Integers, Sequences, FiniteSets, TLC

(***************************************************************************)
(* Bounds of the model.                                                    *)
(***************************************************************************)
\* Number of workers Run starts (its `workers` argument).
NumWorkers == 2
\* The notification counters saturate here ("MaxCount or more").
MaxCount == 2

(***************************************************************************)
(* Program constants.                                                      *)
(***************************************************************************)
maxRetries == 15
workQueueKey == "kube-system/installconfig"
\* DefaultControllerRateLimiter: 5ms base delay, 1000s ceiling.
BaseDelay == 5
MaxDelay == 1000000

Workers == 1..NumWorkers
\* The kinds of notification an informer delivers to the handler.
EventKinds == {"AddFunc", "UpdateFunc", "DeleteFunc"}
\* Every value that can be put on the queue.
Keys == {workQueueKey} \cup EventKinds
NoKey == "<none>"
NoTimer == -1
nil == "nil"

Min(a, b) == IF a <= b THEN a ELSE b
Max(a, b) == IF a >= b THEN a ELSE b
Saturate(n) == Min(n + 1, MaxCount)

VARIABLES
  runPc,        \* where Run is: "WaitForCacheSync", "stopCh" (blocked on it), "returned"
  stopCh,       \* TRUE once the stop channel is closed
  queue,        \* workqueue.Type.queue: the keys waiting to be handed out, in order
  dirty,        \* workqueue.Type.dirty: the keys that need processing
  processing,   \* workqueue.Type.processing: the keys handed out and not yet Done
  shuttingDown, \* workqueue.Type.shuttingDown
  failures,     \* ItemExponentialFailureRateLimiter.failures: key -> requeue count
  waiting,      \* delaying queue: key -> ms until its delayed add is ready (NoTimer: none)
  pc,           \* worker -> its position
  key,          \* worker -> the key Get handed it (NoKey: none)
  err,          \* worker -> the error its Sync returned (nil: none)
  calls,        \* worker -> the calls made for the key it holds, in order (empty: holds none)
  backoff,      \* the delay the last AddRateLimited of the work key asked for; 0 once it has passed
  events,       \* accepted notifications since the key was last quiescent: 0, 1, or 2 for more
  burst,        \* accepted notifications since the work key was last handed out or back, saturating
  attempts,     \* consecutive failed Syncs of the work key in the current episode
  stored,       \* whether a CVOConfig is persisted in the store
  informer      \* whether the CVOConfig informer has yet to deliver the notification of a write

vars == <<runPc, stopCh, queue, dirty, processing, shuttingDown, failures, waiting,
          pc, key, err, calls, backoff, events, burst, attempts, stored, informer>>

queueVars == <<queue, dirty, processing>>
storeVars == <<stored, informer>>
workerVars == <<pc, key, err, calls>>

(***************************************************************************)
(* The work queue (client-go workqueue.Type).                              *)
(***************************************************************************)
\* Add: a no-op when shutting down or already dirty; a key being processed is
\* only marked dirty, and is queued again by Done.
Add(item) ==
  IF shuttingDown \/ item \in dirty
  THEN UNCHANGED <<queue, dirty>>
  ELSE /\ dirty' = dirty \cup {item}
       /\ queue' = IF item \in processing THEN queue ELSE Append(queue, item)

\* Done: the key is no longer processed; if it was marked dirty meanwhile it is
\* queued again.
Done(item) ==
  /\ processing' = processing \ {item}
  /\ queue' = IF item \in dirty THEN Append(queue, item) ELSE queue
  /\ UNCHANGED dirty

NumRequeues(item) == failures[item]

\* ItemExponentialFailureRateLimiter.When: baseDelay * 2^failures, at most
\* maxDelay; the call counts one more failure.
When(item) == Min(BaseDelay * (2 ^ failures[item]), MaxDelay)

\* AddAfter: dropped when shutting down; the delaying queue keeps one entry
\* per key and only ever moves it earlier.
AddAfter(item, delay) ==
  IF shuttingDown
  THEN UNCHANGED waiting
  ELSE waiting' = [waiting EXCEPT ![item] =
                     IF waiting[item] = NoTimer THEN delay
                     ELSE Min(waiting[item], delay)]

\* AddRateLimited(item) is AddAfter(item, rateLimiter.When(item)).
AddRateLimited(item) ==
  /\ AddAfter(item, When(item))
  /\ failures' = [failures EXCEPT ![item] = failures[item] + 1]

\* Forget clears the rate limiter's count; it leaves a waiting delayed add alone.
Forget(item) ==
  /\ failures' = [failures EXCEPT ![item] = 0]
  /\ UNCHANGED waiting

\* The key is neither pending, nor in flight, nor scheduled, and has no count.
Quiescent(q, d, p, f, wt) ==
  /\ q = << >>
  /\ d = {}
  /\ p = {}
  /\ f[workQueueKey] = 0
  /\ wt[workQueueKey] = NoTimer

(***************************************************************************)
(* Init: the state New leaves, with Run entered.                           *)
(***************************************************************************)
Init ==
  /\ runPc = "WaitForCacheSync"
  /\ stopCh = FALSE
  /\ queue = << >>
  /\ dirty = {}
  /\ processing = {}
  /\ shuttingDown = FALSE
  /\ failures = [k \in Keys |-> 0]
  /\ waiting = [k \in Keys |-> NoTimer]
  /\ pc = [w \in Workers |-> "notStarted"]
  /\ key = [w \in Workers |-> NoKey]
  /\ err = [w \in Workers |-> nil]
  /\ calls = [w \in Workers |-> << >>]
  /\ backoff = 0
  /\ events = 0
  /\ burst = 0
  /\ attempts = 0
  /\ stored = FALSE
  /\ informer = FALSE

(***************************************************************************)
(* Run and the stop signal.                                                *)
(***************************************************************************)
\* WaitForCacheSync succeeds and Run starts the workers, then blocks on stopCh.
RunStartWorkers ==
  /\ runPc = "WaitForCacheSync"
  /\ runPc' = "stopCh"
  /\ pc' = [w \in Workers |-> "Until"]
  /\ UNCHANGED <<stopCh, queueVars, shuttingDown, failures, waiting, key, err, calls,
                 backoff, events, burst, attempts, storeVars>>

\* ShutDown of the rate limited queue: the queue is shutting down, and the
\* delaying queue's loop stops, so no waiting delayed add is ever added.
ShutDown ==
  /\ shuttingDown' = TRUE
  /\ waiting' = [k \in Keys |-> NoTimer]

\* The process-wide stop signal: the stop channel is closed, and Run, which
\* polls it in WaitForCacheSync or is blocked on it, returns; its deferred
\* queue.ShutDown() runs.
Stop ==
  /\ ~stopCh
  /\ stopCh' = TRUE
  /\ runPc' = "returned"
  /\ ShutDown
  /\ events' = IF Quiescent(queue, dirty, processing, failures, waiting') THEN 0 ELSE events
  /\ UNCHANGED <<queueVars, failures, workerVars, backoff, burst, attempts, storeVars>>

Run == RunStartWorkers \/ Stop

(***************************************************************************)
(* The Event Bridge.                                                       *)
(***************************************************************************)
\* A handler that enqueues a key of its own for every kind of notification.
EventKeyPerKind(kind) == kind

\* The key a notification of the given kind enqueues.
EventKey(kind) == workQueueKey

\* A handler with no DeleteFunc: the deletion of a watched object is counted as
\* a notification but enqueues nothing.
eventHandlerWithoutDelete(kind) ==
  /\ IF kind = "DeleteFunc" THEN UNCHANGED <<queue, dirty>> ELSE Add(EventKey(kind))
  /\ events' = IF shuttingDown THEN events ELSE Min(events + 1, 2)
  /\ burst' = IF shuttingDown THEN burst ELSE Saturate(burst)
  /\ UNCHANGED <<stored, runPc, stopCh, processing, shuttingDown, failures, waiting,
                 workerVars, backoff, attempts>>

\* The handler New registers with both informers, called with one notification
\* of the given kind: queue.Add(workQueueKey).
eventHandler(kind) ==
  /\ Add(EventKey(kind))
  /\ events' = IF shuttingDown THEN events ELSE Min(events + 1, 2)
  /\ burst' = IF shuttingDown THEN burst ELSE Saturate(burst)
  /\ UNCHANGED <<stored, runPc, stopCh, processing, shuttingDown, failures, waiting,
                 workerVars, backoff, attempts>>

\* A watched resource is created, updated or deleted by someone else: its
\* informer calls the handler.
Notification(kind) ==
  /\ eventHandler(kind)
  /\ UNCHANGED informer

\* The CVOConfig informer delivers the notification of the operator's own write
\* of the config (New registers the handler with cvoConfigInformer).
WriteObserved ==
  /\ informer
  /\ \E kind \in {"AddFunc", "UpdateFunc"} : eventHandler(kind)
  /\ informer' = FALSE

(***************************************************************************)
(* The delaying queue's timer and the passing of time.                     *)
(***************************************************************************)
\* A delayed add whose time has come is added to the queue.
TimerFire(item) ==
  /\ waiting[item] = 0
  /\ waiting' = [waiting EXCEPT ![item] = NoTimer]
  /\ Add(item)
  /\ events' = IF Quiescent(queue', dirty', processing, failures, waiting') THEN 0 ELSE events
  /\ UNCHANGED <<storeVars, runPc, stopCh, processing, shuttingDown, failures, workerVars, backoff,
                 burst, attempts>>

\* The amounts by which time advances: up to the moment a waiting delayed add
\* becomes ready.
TickSteps == {waiting[k] : k \in {j \in Keys : waiting[j] > 0}}

Tick(d) ==
  /\ waiting' = [k \in Keys |-> IF waiting[k] = NoTimer THEN NoTimer
                                 ELSE Max(0, waiting[k] - d)]
  /\ backoff' = IF d >= backoff THEN 0 ELSE backoff
  /\ UNCHANGED <<storeVars, runPc, stopCh, queueVars, shuttingDown, failures, workerVars, events,
                 burst, attempts>>

(***************************************************************************)
(* The worker loop.                                                        *)
(***************************************************************************)
\* A worker that polls stopCh itself when the queue is empty and returns then,
\* while the queue is not shut down.
GetQuitOnStop(w) ==
  /\ pc[w] = "Get"
  /\ stopCh
  /\ pc' = [pc EXCEPT ![w] = "exited"]
  /\ UNCHANGED <<storeVars, runPc, stopCh, queueVars, shuttingDown, failures, waiting,
                 key, err, calls, backoff, events, burst, attempts>>

\* wait.Until(optr.worker, time.Second, stopCh): the loop head checks stopCh
\* before every call of worker.
Until(w) ==
  /\ pc[w] = "Until"
  /\ pc' = [pc EXCEPT ![w] = IF stopCh THEN "exited" ELSE "Get"]
  /\ UNCHANGED <<storeVars, runPc, stopCh, queueVars, shuttingDown, failures, waiting,
                 key, err, calls, backoff, events, burst, attempts>>

\* processNextWorkItem calling queue.Done(key) at once instead of deferring it:
\* the key is handed out but no longer marked as being processed.
GetDoneAtOnce(w) ==
  /\ pc[w] = "Get"
  /\ Len(queue) > 0
  /\ LET item == Head(queue) IN
       /\ queue' = Tail(queue)
       /\ processing' = processing \ {item}
       /\ dirty' = dirty \ {item}
       /\ key' = [key EXCEPT ![w] = item]
       /\ burst' = IF item = workQueueKey THEN 0 ELSE burst
  /\ pc' = [pc EXCEPT ![w] = "syncCVOCRDs"]
  /\ err' = [err EXCEPT ![w] = nil]
  /\ calls' = [calls EXCEPT ![w] = << >>]
  /\ UNCHANGED <<storeVars, runPc, stopCh, shuttingDown, failures, waiting, backoff,
                 events, attempts>>

\* processNextWorkItem, queue.Get() returning a key: the key is in flight.
Get(w) ==
  /\ pc[w] = "Get"
  /\ Len(queue) > 0
  /\ LET item == Head(queue) IN
       /\ queue' = Tail(queue)
       /\ processing' = processing \cup {item}
       /\ dirty' = dirty \ {item}
       /\ key' = [key EXCEPT ![w] = item]
       /\ burst' = IF item = workQueueKey THEN 0 ELSE burst
  /\ pc' = [pc EXCEPT ![w] = "syncCVOCRDs"]
  /\ err' = [err EXCEPT ![w] = nil]
  /\ calls' = [calls EXCEPT ![w] = << >>]
  /\ UNCHANGED <<storeVars, runPc, stopCh, shuttingDown, failures, waiting, backoff,
                 events, attempts>>

\* processNextWorkItem, queue.Get() reporting shutdown: worker returns, and
\* wait.Until returns too when it finds stopCh closed.
GetQuit(w) ==
  /\ pc[w] = "Get"
  /\ Len(queue) = 0
  /\ shuttingDown
  /\ pc' = [pc EXCEPT ![w] = IF stopCh THEN "exited" ELSE "Until"]
  /\ UNCHANGED <<storeVars, runPc, stopCh, queueVars, shuttingDown, failures, waiting,
                 key, err, calls, backoff, events, burst, attempts>>

(***************************************************************************)
(* The sync pipeline.                                                      *)
(***************************************************************************)
\* The six stages of sync, in the order sync calls them.
Stages == <<"syncCVOCRDs", "getConfig", "syncStatusWorking",
            "syncUpdatePayloadContents", "syncUpdatePayload", "syncStatusDone">>
StageSet == {Stages[i] : i \in 1..Len(Stages)}
StageIndex(s) == CHOOSE i \in 1..Len(Stages) : Stages[i] = s

\* The error a failing stage returns.
StageErr(s) ==
  CASE s = "syncCVOCRDs" -> "syncCVOCRDs: error"
    [] s = "getConfig" -> "ApplyCVOConfigFromCache: error"
    [] s = "syncStatusWorking" -> "syncStatus(Working): error"
    [] s = "syncUpdatePayloadContents" -> "syncUpdatePayloadContents: error"
    [] s = "syncUpdatePayload" -> "syncUpdatePayload: error"
    [] s = "syncStatusDone" -> "syncStatus(Done): error"
InvalidClusterID == "invalid ClusterID"

\* The ClusterIDs uuid.NewRandom() can hand back, told apart by what getConfig
\* and the store tell apart: a version 4 RFC4122 UUID other than the persisted
\* one (any fresh one), the very UUID that is persisted, or (NewRandom's error
\* is ignored) the zero UUID, whose variant is not RFC4122.
FreshID == "v4-rfc4122, fresh"
StoredID == "v4-rfc4122, as persisted"
ValidClusterIDs == {FreshID, StoredID}
ClusterIDs == ValidClusterIDs \cup {"zero"}

\* resourceapply.ApplyCVOConfigFromCache, apply-if-changed: no config yet, create
\* it; one with another ClusterID, update it; the same one, write nothing.  A
\* write that succeeds is what the CVOConfig informer will notify of.
ApplyCVOConfigFromCache(id, ok) ==
  IF ok /\ (~stored \/ id = FreshID)
  THEN /\ stored' = TRUE
       /\ informer' = TRUE
  ELSE UNCHANGED storeVars

\* sync going on to the next stage although the payload fetch failed.
SyncNextIgnoreFetch(s, e) ==
  IF (e # nil /\ s # "syncUpdatePayloadContents") \/ StageIndex(s) = Len(Stages)
  THEN "handleErr"
  ELSE Stages[StageIndex(s) + 1]

\* Where sync goes after stage s returned e: the first error is returned at
\* once, as is the result of the last stage.
SyncNext(s, e) ==
  IF e # nil \/ StageIndex(s) = Len(Stages)
  THEN "handleErr"
  ELSE Stages[StageIndex(s) + 1]

Call(op, e) == [op |-> op, err |-> e]

\* sync returning nil when the last stage, the Done status, fails: its error
\* is logged and dropped.
ReturnedDropsLastError(w, s, e) ==
  LET r == IF StageIndex(s) = Len(Stages) THEN nil ELSE e IN
  /\ pc' = [pc EXCEPT ![w] = SyncNext(s, e)]
  /\ err' = [err EXCEPT ![w] = IF SyncNext(s, e) = "handleErr" THEN r ELSE nil]
  /\ attempts' = IF SyncNext(s, e) = "handleErr" /\ key[w] = workQueueKey
                 THEN (IF r = nil THEN 0 ELSE Min(attempts + 1, maxRetries + 2))
                 ELSE attempts

\* sync returned e to processNextWorkItem.
Returned(w, s, e) ==
  /\ pc' = [pc EXCEPT ![w] = SyncNext(s, e)]
  /\ err' = [err EXCEPT ![w] = IF SyncNext(s, e) = "handleErr" THEN e ELSE nil]
  /\ attempts' = IF SyncNext(s, e) = "handleErr" /\ key[w] = workQueueKey
                 THEN (IF e = nil THEN 0 ELSE Min(attempts + 1, maxRetries + 2))
                 ELSE attempts

\* getConfig applying the config before it validates the ClusterID.
getConfigAppliesFirst(w, id, applyOk) ==
  /\ pc[w] = "getConfig"
  /\ id = StoredID => stored
  /\ LET e == IF ~applyOk THEN StageErr("getConfig")
              ELSE IF id \notin ValidClusterIDs THEN InvalidClusterID
              ELSE nil IN
       /\ calls' = [calls EXCEPT ![w] =
                      @ \o <<Call("ApplyCVOConfigFromCache",
                                  IF applyOk THEN nil ELSE StageErr("getConfig")),
                             Call("getConfig", e)>>]
       /\ Returned(w, "getConfig", e)
  /\ IF applyOk /\ id # StoredID
     THEN stored' = TRUE /\ informer' = TRUE
     ELSE UNCHANGED storeVars
  /\ UNCHANGED <<runPc, stopCh, queueVars, shuttingDown, failures, waiting, key,
                 backoff, events, burst>>

\* getConfig returning the config it built without applying it to the store.
getConfigSkipsApply(w, id, applyOk) ==
  /\ pc[w] = "getConfig"
  /\ id = StoredID => stored
  /\ LET e == IF id \notin ValidClusterIDs THEN InvalidClusterID ELSE nil IN
       /\ calls' = [calls EXCEPT ![w] = Append(@, Call("getConfig", e))]
       /\ Returned(w, "getConfig", e)
  /\ UNCHANGED <<storeVars, runPc, stopCh, queueVars, shuttingDown, failures, waiting, key,
                 backoff, events, burst>>

\* getConfig: generate and validate the ClusterID, then apply the config to
\* the store through the cache.
getConfig(w, id, applyOk) ==
  /\ pc[w] = "getConfig"
  /\ id = StoredID => stored
  /\ IF id \notin ValidClusterIDs
     THEN /\ calls' = [calls EXCEPT ![w] = Append(@, Call("getConfig", InvalidClusterID))]
          /\ Returned(w, "getConfig", InvalidClusterID)
          /\ UNCHANGED storeVars
     ELSE LET e == IF applyOk THEN nil ELSE StageErr("getConfig") IN
          /\ calls' = [calls EXCEPT ![w] =
                         @ \o <<Call("ApplyCVOConfigFromCache", e), Call("getConfig", e)>>]
          /\ Returned(w, "getConfig", e)
          /\ ApplyCVOConfigFromCache(id, applyOk)
  /\ UNCHANGED <<runPc, stopCh, queueVars, shuttingDown, failures, waiting, key,
                 backoff, events, burst>>

\* Any other stage of sync: one call of a collaborator, which succeeds or fails.
syncStage(w, ok) ==
  /\ pc[w] \in StageSet \ {"getConfig"}
  /\ LET e == IF ok THEN nil ELSE StageErr(pc[w]) IN
       /\ calls' = [calls EXCEPT ![w] = Append(@, Call(pc[w], e))]
       /\ Returned(w, pc[w], e)
  /\ UNCHANGED <<storeVars, runPc, stopCh, queueVars, shuttingDown, failures, waiting, key, backoff,
                 events, burst>>

sync(w) ==
  \/ \E ok \in BOOLEAN : syncStage(w, ok)
  \/ \E id \in ClusterIDs, applyOk \in BOOLEAN : getConfig(w, id, applyOk)

(***************************************************************************)
(* The retry policy.                                                       *)
(***************************************************************************)
\* handleErr comparing with <= : one more requeue before it gives up.
HandleErrBranchOneMore(e, n) ==
  IF e = nil THEN "forget"
  ELSE IF n <= maxRetries THEN "requeue"
  ELSE "escalate"

\* handleErr without the maxRetries test: every failure is requeued.
HandleErrBranchNoLimit(e, n) ==
  IF e = nil THEN "forget"
  ELSE "requeue"

\* The branch handleErr takes on error e with n requeues so far.
HandleErrBranch(e, n) ==
  IF e = nil THEN "forget"
  ELSE IF n < maxRetries THEN "requeue"
  ELSE "escalate"

\* handleErr requeueing a failed key with Add instead of AddRateLimited: the
\* failure is counted, but the key is pending at once.
HandleErrQueueNoDelay(item, branch) ==
  CASE branch = "forget" ->
         /\ Forget(item)
         /\ backoff' = IF item = workQueueKey THEN 0 ELSE backoff
         /\ UNCHANGED <<queue, dirty>>
    [] branch = "requeue" ->
         /\ Add(item)
         /\ failures' = [failures EXCEPT ![item] = failures[item] + 1]
         /\ backoff' = IF item = workQueueKey THEN When(item) ELSE backoff
         /\ UNCHANGED waiting
    [] OTHER ->
         UNCHANGED <<queue, dirty, failures, waiting, backoff>>

\* handleErr returning on success without calling Forget.
HandleErrQueueNoForget(item, branch) ==
  CASE branch = "requeue" ->
         /\ AddRateLimited(item)
         /\ backoff' = IF item = workQueueKey THEN When(item) ELSE backoff
         /\ UNCHANGED <<queue, dirty>>
    [] OTHER ->
         UNCHANGED <<queue, dirty, failures, waiting, backoff>>

\* The queue calls handleErr makes in the branch it takes: Forget on success,
\* AddRateLimited on a failure that is retried, none yet on exhaustion.
HandleErrQueue(item, branch) ==
  CASE branch = "forget" ->
         /\ Forget(item)
         /\ backoff' = IF item = workQueueKey THEN 0 ELSE backoff
         /\ UNCHANGED <<queue, dirty>>
    [] branch = "requeue" ->
         /\ AddRateLimited(item)
         /\ backoff' = IF item = workQueueKey THEN When(item) ELSE backoff
         /\ UNCHANGED <<queue, dirty>>
    [] OTHER ->
         UNCHANGED <<queue, dirty, failures, waiting, backoff>>

\* handleErr without the return after AddRateLimited: every failure falls
\* through to syncDegradedStatus.
HandleErrNextPcFallThrough(branch) ==
  IF branch = "forget" THEN "Done" ELSE "syncDegradedStatus"

\* handleErr returning on exhaustion before it publishes or forgets.
HandleErrNextPcGiveUp(branch) == "Done"

\* Where handleErr goes next: it returns after Forget or AddRateLimited, and
\* goes on to syncDegradedStatus on exhaustion.
HandleErrNextPc(branch) ==
  IF branch = "escalate" THEN "syncDegradedStatus" ELSE "Done"

\* handleErr run after the key was released: the key is no longer marked as
\* processing when the retry policy decides.
handleErrAfterDone(w) ==
  /\ pc[w] = "handleErr"
  /\ LET item == key[w]
         branch == HandleErrBranch(err[w], NumRequeues(item)) IN
       /\ HandleErrQueue(item, branch)
       /\ calls' = [calls EXCEPT ![w] =
                      CASE branch = "forget" -> Append(@, Call("Forget", nil))
                        [] branch = "requeue" -> Append(@, Call("AddRateLimited", nil))
                        [] OTHER -> @]
       /\ pc' = [pc EXCEPT ![w] = HandleErrNextPc(branch)]
       /\ processing' = processing \ {item}
  /\ UNCHANGED <<storeVars, runPc, stopCh, shuttingDown, key, err, events, burst,
                 attempts>>

handleErr(w) ==
  /\ pc[w] = "handleErr"
  /\ LET item == key[w]
         branch == HandleErrBranch(err[w], NumRequeues(item)) IN
       /\ HandleErrQueue(item, branch)
       /\ calls' = [calls EXCEPT ![w] =
                      CASE branch = "forget" -> Append(@, Call("Forget", nil))
                        [] branch = "requeue" -> Append(@, Call("AddRateLimited", nil))
                        [] OTHER -> @]
       /\ pc' = [pc EXCEPT ![w] = HandleErrNextPc(branch)]
  /\ UNCHANGED <<storeVars, runPc, stopCh, processing, shuttingDown, key, err, events, burst,
                 attempts>>

\* handleErr returning when syncDegradedStatus fails: the key is not forgotten.
syncDegradedStatusOrReturn(w, ok) ==
  /\ pc[w] = "syncDegradedStatus"
  /\ LET e == IF ok THEN nil ELSE "syncDegradedStatus: error" IN
       /\ calls' = [calls EXCEPT ![w] = Append(@, Call("syncDegradedStatus", e))]
       /\ err' = [err EXCEPT ![w] = IF ok THEN @ ELSE e]
  /\ pc' = [pc EXCEPT ![w] = IF ok THEN "HandleError" ELSE "Done"]
  /\ UNCHANGED <<storeVars, runPc, stopCh, queueVars, shuttingDown, failures, waiting, key, backoff,
                 events, burst, attempts>>

\* The exhaustion branch: publish the Degraded condition; the error carried on
\* is the sync error, or the publish's own error when it fails.
syncDegradedStatus(w, ok) ==
  /\ pc[w] = "syncDegradedStatus"
  /\ LET e == IF ok THEN nil ELSE "syncDegradedStatus: error" IN
       /\ calls' = [calls EXCEPT ![w] = Append(@, Call("syncDegradedStatus", e))]
       /\ err' = [err EXCEPT ![w] = IF ok THEN @ ELSE e]
  /\ pc' = [pc EXCEPT ![w] = "HandleError"]
  /\ UNCHANGED <<storeVars, runPc, stopCh, queueVars, shuttingDown, failures, waiting, key, backoff,
                 events, burst, attempts>>

\* The exhaustion branch, continued: utilruntime.HandleError(err), then Forget.
dropKey(w) ==
  /\ pc[w] = "HandleError"
  /\ Forget(key[w])
  /\ calls' = [calls EXCEPT ![w] =
                 @ \o <<Call("HandleError", err[w]), Call("Forget", nil)>>]
  /\ pc' = [pc EXCEPT ![w] = "Done"]
  /\ attempts' = IF key[w] = workQueueKey THEN 0 ELSE attempts
  /\ backoff' = IF key[w] = workQueueKey THEN 0 ELSE backoff
  /\ UNCHANGED <<storeVars, runPc, stopCh, queueVars, shuttingDown, key, err,
                 events, burst>>

\* processNextWorkItem returning without calling queue.Done(key).
deferDoneMissing(w) ==
  /\ pc[w] = "Done"
  /\ calls' = [calls EXCEPT ![w] = << >>]
  /\ key' = [key EXCEPT ![w] = NoKey]
  /\ err' = [err EXCEPT ![w] = nil]
  /\ pc' = [pc EXCEPT ![w] = "Get"]
  /\ burst' = 0
  /\ UNCHANGED <<storeVars, runPc, stopCh, queueVars, shuttingDown, failures, waiting, backoff,
                 events, attempts>>

\* queue.Done(key) called on the success path only, not deferred: after a
\* failed Sync the key stays marked as processing.
deferDoneOnSuccess(w) ==
  /\ pc[w] = "Done"
  /\ IF err[w] = nil THEN Done(key[w]) ELSE UNCHANGED queueVars
  /\ calls' = [calls EXCEPT ![w] = << >>]
  /\ key' = [key EXCEPT ![w] = NoKey]
  /\ err' = [err EXCEPT ![w] = nil]
  /\ pc' = [pc EXCEPT ![w] = "Get"]
  /\ events' = IF Quiescent(queue', dirty, processing', failures, waiting) THEN 0 ELSE events
  /\ burst' = 0
  /\ UNCHANGED <<storeVars, runPc, stopCh, shuttingDown, failures, waiting, backoff, attempts>>

\* The deferred queue.Done(key), run as processNextWorkItem returns.
deferDone(w) ==
  /\ pc[w] = "Done"
  /\ Done(key[w])
  /\ calls' = [calls EXCEPT ![w] = << >>]
  /\ key' = [key EXCEPT ![w] = NoKey]
  /\ err' = [err EXCEPT ![w] = nil]
  /\ pc' = [pc EXCEPT ![w] = "Get"]
  /\ events' = IF Quiescent(queue', dirty, processing', failures, waiting) THEN 0 ELSE events
  /\ burst' = 0
  /\ UNCHANGED <<storeVars, runPc, stopCh, shuttingDown, failures, waiting, backoff, attempts>>

processNextWorkItem(w) ==
  \/ Get(w)
  \/ GetQuit(w)
  \/ sync(w)
  \/ handleErr(w)
  \/ syncDegradedStatus(w, TRUE)
  \/ syncDegradedStatus(w, FALSE)
  \/ dropKey(w)
  \/ deferDone(w)

worker(w) == Until(w) \/ processNextWorkItem(w)

(***************************************************************************)
(* The specification.                                                      *)
(***************************************************************************)
Next ==
  \/ Run
  \/ \E k \in EventKinds : Notification(k)
  \/ WriteObserved
  \/ \E item \in Keys : TimerFire(item)
  \/ \E d \in TickSteps : Tick(d)
  \/ \E w \in Workers : worker(w)

Spec == Init /\ [][Next]_vars

(***************************************************************************)
(* What the claims speak of.                                               *)
(***************************************************************************)
\* The positions of a worker between Get() returning a key and Done(key).
InFlightPcs == StageSet \cup {"handleErr", "syncDegradedStatus", "HandleError", "Done"}
\* The workers that hold key k: a Sync of k, or its handling, is in progress.
Holders(k) == {w \in Workers : pc[w] \in InFlightPcs /\ key[w] = k}
\* The same, in the state a step leads to.
HoldersNext(k) == {w \in Workers : pc'[w] \in InFlightPcs /\ key'[w] = k}
\* The names of the calls worker w has made for the key it holds.
Ops(w) == {calls[w][i].op : i \in 1..Len(calls[w])}
\* The step is a Get() handing a key to worker w.
GetStep(w) == pc[w] = "Get" /\ pc'[w] \in InFlightPcs
\* The step is worker w's Done(key).
DoneStep(w) == pc[w] = "Done" /\ pc'[w] = "Get"

(***************************************************************************)
(* C1: in every reachable state at most one worker is between Get()        *)
(* returning the work key and Done(key): at most one Sync of the key is in *)
(* progress, whatever the workers, notifications and delayed adds do.      *)
(***************************************************************************)
C1_AtMostOneSyncInFlight == Cardinality(Holders(workQueueKey)) <= 1

\* A Sync is in progress, a notification has marked the key dirty again, and
\* another worker is waiting in Get().
C1_Witness ==
  \E w1, w2 \in Workers :
    /\ w1 # w2
    /\ w1 \in Holders(workQueueKey)
    /\ pc[w2] = "Get"
    /\ workQueueKey \in dirty
    /\ burst >= 1

(***************************************************************************)
(* C2: coalescing.  However many notifications enqueue the key while it is *)
(* not in flight and before a worker dequeues it, the queue holds it once, *)
(* and the Get() that starts the one Sync leaves nothing pending: no key   *)
(* is queued or marked dirty after it.                                     *)
(***************************************************************************)
C2_Coalescing ==
  [][ /\ Len(queue') <= 1
      /\ \A w \in Workers :
           (GetStep(w) /\ burst >= 1) => (queue' = << >> /\ dirty' = {}) ]_vars

\* Two or more notifications have arrived since the key was last in flight,
\* and the key is queued once.
C2_Witness ==
  /\ burst >= 2
  /\ queue = <<workQueueKey>>
  /\ processing = {}

(***************************************************************************)
(* C3: follow-up run.  Notifications that arrive while the key is in       *)
(* flight start no second Sync: no Get() hands the key out while a worker  *)
(* holds it, and it is not queued meanwhile.  When the worker calls        *)
(* Done(key) after one or more such notifications, whatever Sync returned, *)
(* the key is queued exactly once; and a dirty key that no worker holds is *)
(* always queued, so the follow-up is not lost.                            *)
(***************************************************************************)
C3_FollowUp ==
  [][ /\ \A w \in Workers :
           GetStep(w) => Holders(key'[w]) = {}
      /\ HoldersNext(workQueueKey) # {} => queue' = << >>
      /\ \A w \in Workers :
           (DoneStep(w) /\ key[w] = workQueueKey /\ burst >= 1)
             => (queue' = <<workQueueKey>> /\ queue = << >>)
      /\ (HoldersNext(workQueueKey) = {} /\ workQueueKey \in dirty')
           => queue' = <<workQueueKey>> ]_vars

\* A worker has just called Done(key) after a Sync during which notifications
\* arrived: the key is queued once and no Sync is in progress.
C3_Witness ==
  /\ queue = <<workQueueKey>>
  /\ Holders(workQueueKey) = {}
  /\ burst = 0
  /\ events >= 2
  /\ \E w \in Workers : pc[w] = "Get"

\* The calls worker w has made, in the state a step leads to.
OpsNext(w) == {calls'[w][i].op : i \in 1..Len(calls'[w])}
\* How many times worker w has called op for the key it holds.
Count(w, op) == Cardinality({i \in 1..Len(calls[w]) : calls[w][i].op = op})
\* The positions of handleErr's exhaustion branch, before its Forget.
EscalatePcs == {"syncDegradedStatus", "HandleError"}
\* The step is worker w's handleErr deciding on its branch.
HandleErrStep(w) == pc[w] = "handleErr" /\ pc'[w] # "handleErr"
\* The step is worker w's handleErr requeueing the work key with backoff.
RequeueStep(w) ==
  /\ HandleErrStep(w)
  /\ key[w] = workQueueKey
  /\ "AddRateLimited" \in OpsNext(w)
\* The step is the Forget that ends worker w's exhaustion branch.
DropStep(w) == pc[w] = "HandleError" /\ pc'[w] = "Done"

(***************************************************************************)
(* C4 as stated: the failure is escalated after the 15th consecutive       *)
(* failed Sync, so an episode has at most 15 Sync attempts.                *)
(***************************************************************************)
C4_FifteenAttempts ==
  /\ attempts <= maxRetries
  /\ \A w \in Holders(workQueueKey) :
       pc[w] \in EscalatePcs => attempts = maxRetries

(***************************************************************************)
(* C4, amended: handleErr requeues the key after each of the first 15      *)
(* consecutive failed Syncs and escalates on the 16th, when NumRequeues    *)
(* has reached maxRetries: an episode has at most maxRetries + 1 = 16 Sync *)
(* attempts, and the exhaustion branch is entered exactly on the 16th.     *)
(***************************************************************************)
C4_EscalationThreshold ==
  /\ attempts <= maxRetries + 1
  /\ \A w \in Holders(workQueueKey) :
       /\ (pc[w] = "handleErr" /\ err[w] # nil) =>
            NumRequeues(workQueueKey) = attempts - 1
       /\ pc[w] \in EscalatePcs =>
            (attempts = maxRetries + 1 /\ NumRequeues(workQueueKey) = maxRetries)
       /\ "AddRateLimited" \in Ops(w) =>
            (attempts \in 1..maxRetries /\ NumRequeues(workQueueKey) = attempts)
       /\ ("syncDegradedStatus" \in Ops(w) /\ "Forget" \in Ops(w)) =>
            (attempts = 0 /\ NumRequeues(workQueueKey) = 0)

\* The 16th consecutive failed Sync is being escalated.
C4_Witness ==
  \E w \in Holders(workQueueKey) :
    /\ pc[w] = "HandleError"
    /\ attempts = maxRetries + 1
    /\ NumRequeues(workQueueKey) = maxRetries

C6_NoSpontaneousReentry ==
  [][ \A w \in Workers :
        (DropStep(w) /\ key[w] = workQueueKey) =>
          /\ waiting'[workQueueKey] = NoTimer
          /\ burst = 0 => workQueueKey \notin dirty' ]_vars

(***************************************************************************)
(* C7: degradation once.  For the key a worker holds, syncDegradedStatus   *)
(* is called at most once, only after a failed Sync that found the requeue *)
(* count at maxRetries, never together with AddRateLimited; and handleErr  *)
(* on a failed Sync that was not requeued has called it exactly once by    *)
(* the time it returns.  ("Published" is the call of the status sink: the  *)
(* call itself may fail.)                                                  *)
(***************************************************************************)
C7_DegradationOnce ==
  \A w \in Workers :
    /\ Count(w, "syncDegradedStatus") <= 1
    /\ pc[w] = "syncDegradedStatus" =>
         (err[w] # nil /\ NumRequeues(key[w]) = maxRetries
            /\ Count(w, "syncDegradedStatus") = 0)
    /\ "syncDegradedStatus" \in Ops(w) =>
         /\ pc[w] \in {"HandleError", "Done"}
         /\ err[w] # nil
         /\ "AddRateLimited" \notin Ops(w)
         /\ "Forget" \notin Ops(w) => NumRequeues(key[w]) = maxRetries
    /\ (pc[w] = "Done" /\ err[w] # nil /\ "AddRateLimited" \notin Ops(w)) =>
         Count(w, "syncDegradedStatus") = 1
    /\ (pc[w] = "Done" /\ (err[w] = nil \/ "AddRateLimited" \in Ops(w))) =>
         Count(w, "syncDegradedStatus") = 0

\* handleErr has gone through the exhaustion branch: one call of
\* syncDegradedStatus, and the key forgotten.
C7_Witness ==
  \E w \in Holders(workQueueKey) :
    /\ pc[w] = "Done"
    /\ Count(w, "syncDegradedStatus") = 1
    /\ "Forget" \in Ops(w)
    /\ NumRequeues(workQueueKey) = 0

(***************************************************************************)
(* C9: success resets the retry state.  When Sync returned nil, handleErr  *)
(* calls Forget(key) and nothing else: the requeue count is 0 afterwards,  *)
(* the key is neither queued nor scheduled by that call; and the first     *)
(* failure after a success is requeued with the first delay of the ladder, *)
(* 5ms, however many failures came before the success.                     *)
(***************************************************************************)
C9_SuccessResets ==
  [][ \A w \in Workers :
        /\ (HandleErrStep(w) /\ err[w] = nil) =>
             /\ "Forget" \in OpsNext(w)
             /\ "AddRateLimited" \notin OpsNext(w)
             /\ failures'[key[w]] = 0
             /\ pc'[w] = "Done"
             /\ <<queue, dirty, waiting>>' = <<queue, dirty, waiting>>
        /\ (RequeueStep(w) /\ attempts = 1) =>
             /\ NumRequeues(workQueueKey) = 0
             /\ backoff' = BaseDelay
             /\ failures'[workQueueKey] = 1 ]_vars

\* A Sync has succeeded after earlier failures of the same episode (a delayed
\* add of an earlier failure is still waiting), and the count is back at 0.
C9_Witness ==
  \E w \in Holders(workQueueKey) :
    /\ pc[w] = "Done"
    /\ err[w] = nil
    /\ "Forget" \in Ops(w)
    /\ NumRequeues(workQueueKey) = 0
    /\ waiting[workQueueKey] # NoTimer

(***************************************************************************)
(* C10: pipeline order and short-circuit.  Within one Sync invocation the  *)
(* stages called so far are the first stages of the pipeline, each once    *)
(* and in order, and every stage but the last one called returned nil: a   *)
(* stage is called only after all stages before it succeeded.  So after a  *)
(* failed payload fetch neither the apply nor the Done status is called,   *)
(* and the Done status is called only after the apply succeeded.           *)
(***************************************************************************)
IsStageCall(c) == c.op \in StageSet
\* The stage calls of the Sync invocation worker w is in, in order.
StageCalls(w) == SelectSeq(calls[w], IsStageCall)

C10_PipelineOrder ==
  \A w \in Workers :
    LET sc == StageCalls(w) IN
      /\ Len(sc) <= Len(Stages)
      /\ \A i \in 1..Len(sc) :
           /\ sc[i].op = Stages[i]
           /\ i < Len(sc) => sc[i].err = nil
      /\ pc[w] \in StageSet =>
           /\ Len(sc) = StageIndex(pc[w]) - 1
           /\ \A i \in 1..Len(sc) : sc[i].err = nil
      /\ (pc[w] \in InFlightPcs \ StageSet /\ Len(sc) < Len(Stages)) =>
           (Len(sc) >= 1 /\ sc[Len(sc)].err # nil)

\* The payload fetch has failed: sync has returned after four stage calls.
C10_Witness ==
  \E w \in Workers :
    /\ pc[w] = "handleErr"
    /\ Len(StageCalls(w)) = 4
    /\ StageCalls(w)[4].op = "syncUpdatePayloadContents"
    /\ StageCalls(w)[4].err # nil

(***************************************************************************)
(* The retry ladder on its own: every Sync invocation fails, each episode  *)
(* is started by one notification and no other arrives before the key is   *)
(* quiescent again (none from outside, and none of an own write of the     *)
(* config), and the stop signal is not given.  The workers run as         *)
(* goroutines and the delaying queue's timers as its loop, so each worker, *)
(* the timers and the passing of time are scheduled fairly.                *)
(***************************************************************************)
\* A step of sync in an invocation that returns an error.
syncFails(w) ==
  /\ sync(w)
  /\ pc'[w] = "handleErr" => err'[w] # nil

\* The notification that starts an episode.
firstTrigger(kind) ==
  /\ events = 0
  /\ Notification(kind)

LadderWorker(w) ==
  \/ Until(w)
  \/ Get(w)
  \/ syncFails(w)
  \/ handleErr(w)
  \/ syncDegradedStatus(w, TRUE)
  \/ syncDegradedStatus(w, FALSE)
  \/ dropKey(w)
  \/ deferDone(w)

LadderNext ==
  \/ RunStartWorkers
  \/ \E k \in EventKinds : firstTrigger(k)
  \/ \E item \in Keys : TimerFire(item)
  \/ \E d \in TickSteps : Tick(d)
  \/ \E w \in Workers : LadderWorker(w)

LadderSpec ==
  /\ Init
  /\ [][LadderNext]_vars
  /\ WF_vars(RunStartWorkers)
  /\ WF_vars(\E item \in Keys : TimerFire(item))
  /\ WF_vars(\E d \in TickSteps : Tick(d))
  /\ \A w \in Workers : WF_vars(LadderWorker(w))

\* The key is not pending, not in flight and not scheduled for a re-add.
Idle ==
  /\ queue = << >>
  /\ dirty = {}
  /\ processing = {}
  /\ waiting[workQueueKey] = NoTimer
\* The same, in the state a step leads to.
IdleNext ==
  /\ queue' = << >>
  /\ dirty' = {}
  /\ processing' = {}
  /\ waiting'[workQueueKey] = NoTimer
\* Worker w's handleErr has returned from the exhaustion branch, having
\* called syncDegradedStatus.
Published(w) == pc[w] = "Done" /\ "syncDegradedStatus" \in Ops(w)

(***************************************************************************)
(* C8: bounded retry ladder.  When every Sync fails and only the first     *)
(* trigger arrives, then under fair scheduling a triggered key always      *)
(* leads to a call of syncDegradedStatus, and that to a state where the    *)
(* key is not pending, not in flight and not scheduled; and the key comes  *)
(* to rest in no other way than by the Done(key) that follows the call of  *)
(* syncDegradedStatus.                                                     *)
(***************************************************************************)
C8_BoundedRetryLadder ==
  /\ (workQueueKey \in dirty) ~> (\E w \in Workers : Published(w))
  /\ (\E w \in Workers : Published(w)) ~> Idle
  /\ [][ (~Idle /\ IdleNext) =>
           \E w \in Workers : Published(w) /\ DoneStep(w) ]_vars

\* The ladder has run to its end: the Degraded condition has been published,
\* the key forgotten, and nothing is pending or scheduled.
C8_Witness ==
  \E w \in Holders(workQueueKey) :
    /\ Published(w)
    /\ "Forget" \in Ops(w)
    /\ events = 1
    /\ queue = << >>
    /\ dirty = {}
    /\ waiting[workQueueKey] = NoTimer
    /\ NumRequeues(workQueueKey) = 0

(***************************************************************************)
(* C11: error propagation.  What sync returns to processNextWorkItem, and  *)
(* so what handleErr receives, is nil exactly when all six stages were     *)
(* called and each returned nil; otherwise it is the error of the first    *)
(* stage that failed, which is the last stage called.  handleErr decides   *)
(* on that error: a Sync whose last stage, the Done status, failed is      *)
(* requeued or escalated like any other failure, never forgotten as a      *)
(* success.                                                                *)
(***************************************************************************)
\* All six stages of worker w's Sync invocation were called and returned nil.
AllStagesSucceeded(w) ==
  /\ Len(StageCalls(w)) = Len(Stages)
  /\ \A i \in 1..Len(Stages) : StageCalls(w)[i].err = nil

C11_ErrorPropagation ==
  \A w \in Workers :
    LET sc == StageCalls(w) IN
      /\ pc[w] \in {"handleErr", "syncDegradedStatus"} =>
           /\ err[w] = nil <=> AllStagesSucceeded(w)
           /\ Len(sc) >= 1
           /\ err[w] = sc[Len(sc)].err
           /\ \A i \in 1..Len(sc) : sc[i].err # nil => (i = Len(sc) /\ sc[i].err = err[w])
      /\ (pc[w] = "Done" /\ AllStagesSucceeded(w)) =>
           (err[w] = nil /\ Ops(w) \ StageSet = {"ApplyCVOConfigFromCache", "Forget"})
      /\ (pc[w] = "Done" /\ ~AllStagesSucceeded(w)) =>
           /\ err[w] # nil
           /\ "AddRateLimited" \in Ops(w) \/ "syncDegradedStatus" \in Ops(w)

\* The payload was applied and the Done status failed: sync returned that
\* error and handleErr has requeued the key.
C11_Witness ==
  \E w \in Holders(workQueueKey) :
    /\ pc[w] = "Done"
    /\ Len(StageCalls(w)) = Len(Stages)
    /\ StageCalls(w)[5].err = nil
    /\ StageCalls(w)[6].err = StageErr("syncStatusDone")
    /\ err[w] = StageErr("syncStatusDone")
    /\ "AddRateLimited" \in Ops(w)

(***************************************************************************)
(* The healthy run: one notification arrives, before anything is           *)
(* persisted, and every collaborator succeeds: the ClusterID generated is  *)
(* valid and every stage returns nil.  The stop signal is not given.  The  *)
(* workers and the informer's delivery are scheduled fairly.               *)
(***************************************************************************)
\* The one notification from outside.
oneTrigger(kind) ==
  /\ events = 0
  /\ ~stored
  /\ Notification(kind)

\* A step of sync whose collaborator succeeds.
syncSucceeds(w) ==
  /\ sync(w)
  /\ err'[w] = nil
  /\ pc'[w] # "handleErr" \/ AllStagesSucceeded(w)'

HealthyWorker(w) ==
  \/ Until(w)
  \/ Get(w)
  \/ syncSucceeds(w)
  \/ handleErr(w)
  \/ deferDone(w)

HealthyNext ==
  \/ RunStartWorkers
  \/ \E k \in EventKinds : oneTrigger(k)
  \/ WriteObserved
  \/ \E w \in Workers : HealthyWorker(w)

HealthySpec ==
  /\ Init
  /\ [][HealthyNext]_vars
  /\ WF_vars(RunStartWorkers)
  /\ WF_vars(WriteObserved)
  /\ \A w \in Workers : WF_vars(HealthyWorker(w))

\* Worker w's handleErr has returned after a Sync in which every stage
\* succeeded: Working was published, then Done; the config is persisted; the
\* key is forgotten and not requeued; syncDegradedStatus was not called.
HealthyDone(w) ==
  /\ pc[w] = "Done"
  /\ key[w] = workQueueKey
  /\ AllStagesSucceeded(w)
  /\ StageCalls(w)[3] = Call("syncStatusWorking", nil)
  /\ StageCalls(w)[6] = Call("syncStatusDone", nil)
  /\ Call("ApplyCVOConfigFromCache", nil) \in {calls[w][i] : i \in 1..Len(calls[w])}
  /\ stored
  /\ "Forget" \in Ops(w)
  /\ "AddRateLimited" \notin Ops(w)
  /\ "syncDegradedStatus" \notin Ops(w)
  /\ NumRequeues(workQueueKey) = 0
  /\ waiting[workQueueKey] = NoTimer

(***************************************************************************)
(* C12: end-to-end healthy run.  From the initial state (empty queue,      *)
(* nothing persisted), with every collaborator succeeding, a notification  *)
(* leads to a Sync that publishes Working, then Done, with the config      *)
(* persisted and the key forgotten (requeue count 0, no AddRateLimited);   *)
(* every Sync of the run ends so, and syncDegradedStatus is never called.  *)
(***************************************************************************)
C12_HealthyRun ==
  /\ (workQueueKey \in dirty) ~> (\E w \in Workers : HealthyDone(w))
  /\ [][ /\ \A w \in Workers : DoneStep(w) => HealthyDone(w)
         /\ \A w \in Workers : pc'[w] \notin EscalatePcs
         /\ failures' = failures
         /\ waiting' = waiting ]_vars

\* The first Sync after the one notification has succeeded and handleErr has
\* forgotten the key.
C12_Witness ==
  \E w \in Workers :
    /\ HealthyDone(w)
    /\ events = 1
    /\ informer
    /\ queue = << >>
    /\ dirty = {}

(***************************************************************************)
(* C13 as stated: no busy loop.  With every collaborator succeeding and    *)
(* no notification from outside after the first, the run reaches and stays *)
(* in a state where the key is not pending, not in flight and not          *)
(* scheduled: a successful Sync, through its own write of the config,      *)
(* causes no endless chain of further Syncs.                               *)
(***************************************************************************)
C13_Quiescence == <>[]Idle

(***************************************************************************)
(* C14: validation failure writes nothing.  When the generated ClusterID   *)
(* is not an RFC4122 version 4 UUID, getConfig returns the validation      *)
(* error without calling ApplyCVOConfigFromCache: the store and its        *)
(* informer are left as they were, and in that Sync invocation no status   *)
(* is published and no payload is fetched or applied.                      *)
(***************************************************************************)
\* getConfig has returned the validation error in worker w's Sync invocation.
ValidationFailed(w) ==
  Call("getConfig", InvalidClusterID) \in {calls[w][i] : i \in 1..Len(calls[w])}

C14_ValidationWritesNothing ==
  [][ \A w \in Workers :
        /\ (pc[w] = "getConfig" /\ pc'[w] # "getConfig" /\ err'[w] = InvalidClusterID) =>
             /\ UNCHANGED storeVars
             /\ "ApplyCVOConfigFromCache" \notin OpsNext(w)
             /\ pc'[w] = "handleErr"
        /\ ValidationFailed(w)' =>
             /\ OpsNext(w) \cap {"ApplyCVOConfigFromCache", "syncStatusWorking",
                                 "syncUpdatePayloadContents", "syncUpdatePayload",
                                 "syncStatusDone"} = {}
             /\ pc'[w] \notin StageSet
             /\ pc[w] # "getConfig" => stored' = stored ]_vars

\* The first Sync generated an invalid ClusterID: sync has returned the
\* validation error and nothing is persisted.
C14_Witness ==
  \E w \in Workers :
    /\ pc[w] = "handleErr"
    /\ ValidationFailed(w)
    /\ err[w] = InvalidClusterID
    /\ ~stored
    /\ ~informer

(***************************************************************************)
(* The program with the scheduling of its workers: every worker is a       *)
(* goroutine of its own (go wait.Until(optr.worker, ...)), so a worker     *)
(* that can take a step eventually takes one.  Notifications, delayed      *)
(* adds and the stop signal come when they come.                           *)
(***************************************************************************)
FairSpec ==
  /\ Spec
  /\ \A w \in Workers : WF_vars(worker(w))

(***************************************************************************)
(* C15: clean shutdown.  Once the stop signal is given, every worker that  *)
(* was started eventually leaves its loop, and it does so only from the    *)
(* loop head or from a Get() that reports shutdown on an empty queue,      *)
(* holding no key: a Sync that has started runs through handleErr to       *)
(* Done(key).  A Sync that fails after shutdown is not run again: its      *)
(* AddRateLimited schedules nothing and queues nothing.                    *)
(***************************************************************************)
C15_CleanShutdown ==
  /\ stopCh ~> (\A w \in Workers : pc[w] \in {"exited", "notStarted"})
  /\ [][ \A w \in Workers :
           /\ (pc'[w] = "exited" /\ pc[w] # "exited") =>
                /\ stopCh
                /\ pc[w] \in {"Until", "Get"}
                /\ pc[w] = "Get" => (queue = << >> /\ shuttingDown)
                /\ key[w] = NoKey
                /\ processing' = processing
           /\ (pc[w] \in InFlightPcs /\ pc'[w] # pc[w]) =>
                (pc'[w] \in InFlightPcs \/ DoneStep(w))
           /\ (DoneStep(w) /\ key[w] = workQueueKey) =>
                Ops(w) \cap {"Forget", "AddRateLimited"} # {}
           /\ (RequeueStep(w) /\ shuttingDown) =>
                /\ waiting' = waiting
                /\ waiting[workQueueKey] = NoTimer
                /\ <<queue, dirty>>' = <<queue, dirty>> ]_vars

\* A Sync that was in progress when the stop signal came has failed; handleErr
\* has called AddRateLimited, and nothing is scheduled or queued.
C15_Witness ==
  \E w \in Holders(workQueueKey) :
    /\ stopCh
    /\ shuttingDown
    /\ pc[w] = "Done"
    /\ err[w] # nil
    /\ "AddRateLimited" \in Ops(w)
    /\ waiting[workQueueKey] = NoTimer
    /\ queue = << >>
    /\ dirty = {}

\* Worker w is inside its loop of processNextWorkItem: in Get(), or holding a key.
InLoop(w) == pc[w] \in InFlightPcs \cup {"Get"}
\* Worker w has just been handed the work key: its Sync invocation starts.
SyncStarting(w) == pc[w] = "syncCVOCRDs" /\ key[w] = workQueueKey /\ calls[w] = << >>
\* The step is a notification the queue accepts.
AcceptedStep == events' > events \/ burst' > burst

(***************************************************************************)
(* C16 as stated: every notification enqueues the work key, and every      *)
(* notification before shutdown (which leaves the key marked as needing    *)
(* processing) is followed, workers being scheduled fairly, by the start   *)
(* of a Sync invocation.                                                   *)
(***************************************************************************)
C16_NoLostTrigger ==
  /\ [][AcceptedStep => workQueueKey \in dirty']_vars
  /\ (workQueueKey \in dirty) ~> (\E w \in Workers : SyncStarting(w))

(***************************************************************************)
(* C16, amended: every notification of every kind that the queue accepts   *)
(* marks the one work key as needing processing, and nothing else is ever  *)
(* queued; and when the key is so marked while some worker is inside its   *)
(* loop (in Get() or holding the key), a Sync invocation starts            *)
(* afterwards, also when the stop signal comes in between.  (A             *)
(* notification that arrives before any worker has reached Get() is lost   *)
(* when the stop signal comes first.)                                      *)
(***************************************************************************)
C16_NoLostTriggerInLoop ==
  /\ [][ /\ AcceptedStep => workQueueKey \in dirty'
         /\ dirty' \subseteq {workQueueKey}
         /\ queue' \in {<< >>, <<workQueueKey>>}
         /\ \A w \in Workers :
              (pc'[w] = "exited" /\ pc[w] = "Get") => queue = << >> ]_vars
  /\ (workQueueKey \in dirty /\ \E w \in Workers : InLoop(w))
       ~> (\E w \in Workers : SyncStarting(w))

\* The stop signal came after a notification and before its Sync: the Sync
\* invocation starts all the same.
C16_Witness ==
  \E w \in Workers :
    /\ SyncStarting(w)
    /\ stopCh
    /\ events >= 1
    /\ runPc = "returned"

\* The positions of worker w inside handleErr.
PolicyPcs == {"handleErr"} \cup EscalatePcs
\* The queue calls by which handleErr ends.
PolicyOps == {"Forget", "AddRateLimited"}

(***************************************************************************)
(* C17 as stated: a worker step is Get, Sync, Done and then the retry      *)
(* policy: the key is not in flight while the retry policy runs.           *)
(***************************************************************************)
C17_DoneBeforePolicy ==
  \A w \in Workers :
    (pc[w] \in PolicyPcs \/ Ops(w) \cap PolicyOps # {}) => key[w] \notin processing

(***************************************************************************)
(* C17, amended: a worker step is Get, then Sync, then the retry policy    *)
(* (handleErr), then Done, which is deferred and so runs last, whether     *)
(* Sync succeeded or not.  The key is in flight from Get until that Done:  *)
(* also while the retry policy runs.  Done comes only after handleErr has  *)
(* called Forget or AddRateLimited, and handleErr runs only after a call   *)
(* of a Sync stage.                                                        *)
(***************************************************************************)
C17_WorkerStepOrder ==
  /\ [](\A w \in Workers :
          /\ pc[w] \in InFlightPcs => (key[w] # NoKey /\ key[w] \in processing)
          /\ pc[w] \in StageSet =>
               Ops(w) \cap (PolicyOps \cup {"syncDegradedStatus", "HandleError"}) = {}
          /\ pc[w] \in PolicyPcs =>
               (Len(StageCalls(w)) >= 1 /\ Ops(w) \cap PolicyOps = {})
          /\ pc[w] = "Done" =>
               (Len(StageCalls(w)) >= 1 /\ Ops(w) \cap PolicyOps # {}))
  /\ [][ \A w \in Workers :
           /\ GetStep(w) => (pc'[w] = Stages[1] /\ calls'[w] = << >>)
           /\ (pc[w] \in StageSet /\ pc'[w] # pc[w]) =>
                pc'[w] \in StageSet \cup {"handleErr"}
           /\ (pc[w] \in PolicyPcs /\ pc'[w] # pc[w]) =>
                pc'[w] \in PolicyPcs \cup {"Done"}
           /\ (pc[w] = "Done" /\ pc'[w] # pc[w]) =>
                /\ DoneStep(w)
                /\ key[w] \notin processing'
                /\ key'[w] = NoKey ]_vars

\* The retry policy has requeued a failed key, and the key is still marked as
\* processing: Done has not run yet.
C17_Witness ==
  \E w \in Workers :
    /\ pc[w] = "Done"
    /\ err[w] # nil
    /\ key[w] = workQueueKey
    /\ workQueueKey \in processing
    /\ Ops(w) \cap PolicyOps = {"AddRateLimited"}

\* The calls handleErr makes.
IsPolicyCall(c) == c.op \in PolicyOps \cup {"syncDegradedStatus", "HandleError"}
\* The calls worker w has made since sync returned, in order.
PolicyCalls(w) == SelectSeq(calls[w], IsPolicyCall)
\* The names of a sequence of calls.
OpsOf(cs) == [i \in 1..Len(cs) |-> cs[i].op]

(***************************************************************************)
(* C18: the exhaustion branch.  When a failed Sync finds the requeue count *)
(* at maxRetries, handleErr calls syncDegradedStatus, then HandleError     *)
(* with the error, then Forget(key), in that order and nothing else; it    *)
(* never calls AddRateLimited in this branch, and Forget is called also    *)
(* when syncDegradedStatus itself fails.  After it the requeue count is 0. *)
(***************************************************************************)
C18_ExhaustionBranch ==
  \A w \in Workers :
    LET pcs == PolicyCalls(w) IN
      /\ pc[w] = "syncDegradedStatus" => pcs = << >>
      /\ pc[w] = "HandleError" =>
           /\ OpsOf(pcs) = <<"syncDegradedStatus">>
           /\ NumRequeues(key[w]) = maxRetries
      /\ (pc[w] = "Done" /\ err[w] # nil /\ NumRequeues(key[w]) = 0) =>
           /\ OpsOf(pcs) = <<"syncDegradedStatus", "HandleError", "Forget">>
           /\ pcs[2].err = err[w]
           /\ pcs[1].err # nil => pcs[2].err = pcs[1].err
      /\ (pc[w] = "Done" /\ "syncDegradedStatus" \in Ops(w)) =>
           /\ OpsOf(pcs) = <<"syncDegradedStatus", "HandleError", "Forget">>
           /\ NumRequeues(key[w]) = 0

\* The publication of the Degraded condition failed, and the key has been
\* forgotten all the same.
C18_Witness ==
  \E w \in Holders(workQueueKey) :
    /\ pc[w] = "Done"
    /\ Len(PolicyCalls(w)) = 3
    /\ PolicyCalls(w)[1] = Call("syncDegradedStatus", "syncDegradedStatus: error")
    /\ PolicyCalls(w)[3].op = "Forget"
    /\ failures[workQueueKey] = 0

(***************************************************************************)
(* C19: the requeue count of the work key, as NumRequeues reports it, is   *)
(* always in 0..maxRetries = 0..15.  handleErr calls AddRateLimited only   *)
(* when the count is below 15, and the call raises it by one; with the     *)
(* count at 15 a failed Sync is escalated and the count is not raised.     *)
(***************************************************************************)
C19_RequeueCountBound ==
  /\ [](NumRequeues(workQueueKey) \in 0..maxRetries)
  /\ [][ \A w \in Workers :
           /\ RequeueStep(w) =>
                /\ NumRequeues(workQueueKey) < maxRetries
                /\ failures'[workQueueKey] = NumRequeues(workQueueKey) + 1
           /\ (HandleErrStep(w) /\ key[w] = workQueueKey /\ err[w] # nil
                 /\ NumRequeues(workQueueKey) = maxRetries) =>
                /\ "AddRateLimited" \notin OpsNext(w)
                /\ failures' = failures
                /\ waiting' = waiting
                /\ pc'[w] = "syncDegradedStatus" ]_vars

\* The count is at maxRetries and a further failed Sync has not been requeued:
\* handleErr is in its exhaustion branch.
C19_Witness ==
  \E w \in Holders(workQueueKey) :
    /\ NumRequeues(workQueueKey) = maxRetries
    /\ pc[w] = "syncDegradedStatus"
    /\ err[w] # nil
    /\ "AddRateLimited" \notin Ops(w)

(***************************************************************************)
(* C20: Get/Done pairing.  A worker that Get() has handed a key holds it   *)
(* until it calls Done(key), which it does once, after handleErr, whatever *)
(* sync returned and whichever branch handleErr took, and before its next  *)
(* Get(); only Get() and Done(key) change the set of keys in flight.  So   *)
(* the key is marked as processing exactly when some worker is between     *)
(* Get() and Done(key); and, workers being scheduled fairly, a key in      *)
(* flight always comes to be not in flight.                                *)
(***************************************************************************)
C20_GetDonePairing ==
  /\ [](/\ processing = {key[w] : w \in {v \in Workers : pc[v] \in InFlightPcs}}
        /\ workQueueKey \in processing <=> Holders(workQueueKey) # {}
        /\ \A w \in Workers : pc[w] \notin InFlightPcs => key[w] = NoKey)
  /\ [][ /\ \A w \in Workers :
              /\ GetStep(w) =>
                   /\ key[w] = NoKey
                   /\ key'[w] \notin processing
                   /\ processing' = processing \cup {key'[w]}
              /\ (pc[w] \in InFlightPcs /\ pc'[w] \in InFlightPcs) =>
                   (key'[w] = key[w] /\ key[w] \in processing')
              /\ (pc[w] \in InFlightPcs /\ pc'[w] \notin InFlightPcs) =>
                   /\ DoneStep(w)
                   /\ Ops(w) \cap PolicyOps # {}
                   /\ processing' = processing \ {key[w]}
              /\ (pc'[w] \in InFlightPcs /\ pc[w] \notin InFlightPcs) => GetStep(w)
         /\ processing' # processing =>
              \E w \in Workers : GetStep(w) \/ DoneStep(w) ]_vars
  /\ (workQueueKey \in processing) ~> (workQueueKey \notin processing)

\* A worker is back in Get() after the Done(key) of a failed Sync that was
\* requeued: nothing is in flight.
C20_Witness ==
  \E w \in Workers :
    /\ pc[w] = "Get"
    /\ key[w] = NoKey
    /\ processing = {}
    /\ NumRequeues(workQueueKey) >= 1
    /\ attempts >= 1
    /\ waiting[workQueueKey] # NoTimer

====
